---- MODULE Spec2Model ----
(***************************************************************************)
(* A model of the MapIcons logo converter (png_to_svg.js and its           *)
(* revisions).  Seven specifications share the module:                     *)
(*   Spec          - the batch loop processAllLogos, in three revisions    *)
(*   SpecAnalysis  - the pixel analysis extractAndTrim on small rasters    *)
(*   SpecPipeline  - the same analysis behind the first trim of the input  *)
(*   SpecMasks     - the masking loops of the revisions, side by side      *)
(*   SpecPalette   - the colour histogram of convertToHighFidelity         *)
(*   SpecPlacement - the placement arithmetic of convertLogo               *)
(*   SpecAssembly  - the scaling of the traced path into the viewBox       *)
(***************************************************************************)
EXTENDS Integers, Sequences, FiniteSets, TLC

VARIABLES
    rev,      \* which revision of the script runs
    dir,      \* the entries of LOGO_DIR when the batch starts
    files,    \* const files = readdirSync(LOGO_DIR).filter(...)
    idx,      \* position of the for..of loop in files (1-based)
    pc,       \* where the batch is suspended
    pending,  \* positions whose conversion promise has not settled
    started,  \* the files handed to a conversion, in order
    log,      \* the console lines, one per settled conversion
    svgs,     \* the SVG files on disk: output path -> content
    tiles,    \* the tiles appended to htmlContent
    cat,      \* configOutput.style.theme.cat
    reports,  \* the writes of audit.html and configuration.json, in order
    temps,    \* the temporary mask files on disk
    palette,  \* sortedColors.length of the file being converted
    layer,    \* position of the layer loop (1-based), 0 outside it
    layers    \* what each traced layer contributed so far

VARIABLES
    input,    \* the raster of the input file, before the first trim
    data,     \* the raster extractAndTrim analyses: { data, info }
    apc,      \* how far the analysis of data has come
    res,      \* what extractAndTrim computed for data
    mask2,    \* the trimmed mask, trimmed once more
    traced    \* how the promise of traceBuffer settled

VARIABLES
    box,      \* maskInfo: width and height of the resized mask
    place,    \* the top and left handed to composite
    ppc,      \* how far the placement has come
    point,    \* a point of the traced path, in pixels of the canvas
    drawn     \* where the assembled SVG puts that point, and its viewBox

batchVars == <<rev, dir, files, idx, pc, pending, started, log, svgs, tiles,
               cat, reports, temps, palette, layer, layers>>
analysisVars == <<input, data, apc, res, mask2, traced>>
placeVars == <<box, place, ppc, point, drawn>>

vars == <<batchVars, analysisVars, placeVars>>

(***************************************************************************)
(* Bounds                                                                  *)
(***************************************************************************)
MaxDir == 4

(***************************************************************************)
(* File names.  A name is base "." ext; the base may itself contain dots.  *)
(***************************************************************************)
File(b, e) == [base |-> b, ext |-> e]

\* readdirSync order over the names a directory of the model may hold
DirOrder ==
    << File("a", "png"), File("a", "jpg"), File("notes", "txt"),
       File("b", "WEBP"), File("c.d", "jpeg") >>

DirNames == { DirOrder[i] : i \in 1..(IF MaxDir < Len(DirOrder) THEN MaxDir ELSE Len(DirOrder)) }

Revisions == {"staging", "testlogos", "hifi"}

\* String.prototype.toLowerCase on the extensions of the model (the /i flag)
Lower(e) ==
    CASE e = "WEBP" -> "webp"
      [] e = "PNG"  -> "png"
      [] OTHER      -> e

\* /\.(png|jpg|jpeg|webp)$/i.test(file); the hifi revision has no webp
Selected(r, f) ==
    IF r = "hifi"
    THEN Lower(f.ext) \in {"png", "jpg", "jpeg"}
    ELSE Lower(f.ext) \in {"png", "jpg", "jpeg", "webp"}

\* fs.readdirSync(LOGO_DIR).filter(...)
Enumerate(r, d) ==
    SelectSeq(DirOrder, LAMBDA f : f \in d /\ Selected(r, f))

\* file.replace(/\.[^/.]+$/, "") + ".svg"
OutputName(f) == File(f.base, "svg")

\* path.parse(file).name
CleanName(f) == f.base

\* path.join(LOGO_DIR, 'svgs', outputName) in staging, path.join(LOGO_DIR, outputName) elsewhere
OutputPath(r, f) ==
    [folder |-> IF r = "staging" THEN "svgs" ELSE ".", name |-> OutputName(f)]

\* obj[key] = value on a map held as a function
Put(m, k, v) == [x \in DOMAIN m \cup {k} |-> IF x = k THEN v ELSE m[x]]

EmptyMap == [x \in {} |-> 0]

\* sortedColors = Object.keys(colorCounts).sort(...).slice(0, 3)
PaletteMax == 3

(***************************************************************************)
(* The batch: processAllLogos and the conversion it awaits                 *)
(***************************************************************************)
NoAnalysis == [w |-> 0, h |-> 0, px |-> <<>>]

IdleAnalysis ==
    /\ input = NoAnalysis /\ data = NoAnalysis
    /\ apc = "off" /\ res = "none" /\ mask2 = "none" /\ traced = "none"

IdlePlacement ==
    /\ box = [width |-> 0, height |-> 0] /\ place = "none" /\ ppc = "off"
    /\ point = "none" /\ drawn = "none"

Init ==
    /\ rev \in Revisions
    /\ dir \in SUBSET DirNames
    /\ files = Enumerate(rev, dir)
    /\ idx = 1
    /\ pc = "loop"
    /\ pending = {}
    /\ started = <<>>
    /\ log = <<>>
    /\ svgs = EmptyMap
    /\ tiles = <<>>
    /\ cat = EmptyMap
    /\ reports = <<>>
    /\ temps = {}
    /\ palette = 0
    /\ layer = 0
    /\ layers = <<>>
    /\ IdleAnalysis
    /\ IdlePlacement

\* the stages of one conversion, in the order the revision awaits them
Stages(r) ==
    CASE r = "staging"   -> <<"extract", "compose", "trace", "write">>
      [] r = "testlogos" -> <<"extract", "compose", "tempwrite", "trace", "write">>
      [] r = "hifi"      -> <<"extract", "tempwrite", "trace", "write">>

InConversion == pc \in {"extract", "compose", "tempwrite", "trace", "write"}

\* the stage awaited after stage s
StageAfter(r, s) ==
    LET st == Stages(r)
        i  == CHOOSE k \in 1..Len(st) : st[k] = s
    IN  st[i + 1]

\* for (const file of files) { ... try { ... await convert(inputPath, outputPath)
StartFile ==
    /\ pc = "loop"
    /\ idx <= Len(files)
    /\ pending' = pending \cup {idx}
    /\ started' = Append(started, files[idx])
    /\ pc' = "extract"
    /\ palette' = 0 /\ layer' = 0 /\ layers' = <<>>
    /\ UNCHANGED <<rev, dir, files, idx, log, svgs, tiles, cat, reports, temps>>
    /\ UNCHANGED <<analysisVars, placeVars>>

\* Catch without the try: the rejection leaves the loop and ends the batch
CatchRethrows ==
    /\ pending' = pending \ {idx}
    /\ log' = Append(log, [file |-> files[idx], result |-> "error"])
    /\ idx' = idx
    /\ pc' = "crashed"
    /\ palette' = 0 /\ layer' = 0 /\ layers' = <<>>
    /\ UNCHANGED <<rev, dir, files, started, svgs, tiles, cat, reports>>
    /\ UNCHANGED <<analysisVars, placeVars>>

\* Catch that leaves the loop on the failed file, which is then tried again
CatchRetries ==
    /\ pending' = pending \ {idx}
    /\ log' = Append(log, [file |-> files[idx], result |-> "error"])
    /\ idx' = idx
    /\ pc' = "loop"
    /\ palette' = 0 /\ layer' = 0 /\ layers' = <<>>
    /\ UNCHANGED <<rev, dir, files, started, svgs, tiles, cat, reports>>
    /\ UNCHANGED <<analysisVars, placeVars>>

\* } catch (err) { console.log(...) } and the loop moves on
Catch ==
    /\ pending' = pending \ {idx}
    /\ log' = Append(log, [file |-> files[idx], result |-> "error"])
    /\ idx' = idx + 1
    /\ pc' = "loop"
    /\ palette' = 0 /\ layer' = 0 /\ layers' = <<>>
    /\ UNCHANGED <<rev, dir, files, started, svgs, tiles, cat, reports>>
    /\ UNCHANGED <<analysisVars, placeVars>>

\* the sharp pipelines that read the input resolve
ExtractOk ==
    /\ pc = "extract"
    /\ pc' = StageAfter(rev, "extract")
    /\ IF rev = "hifi"
       THEN /\ palette' \in 1..PaletteMax
            /\ layer' = 1
       ELSE /\ palette' = 1
            /\ layer' = 0
    /\ UNCHANGED <<rev, dir, files, idx, pending, started, log, svgs, tiles, cat,
                   reports, temps, layers>>
    /\ UNCHANGED <<analysisVars, placeVars>>

\* a sharp pipeline that reads the input rejects (unreadable file, failed trim)
ExtractFails ==
    /\ pc = "extract"
    /\ Catch
    /\ UNCHANGED temps

\* resize of the mask and composite onto the canvas resolve
ComposeOk ==
    /\ pc = "compose"
    /\ pc' = StageAfter(rev, "compose")
    /\ UNCHANGED <<rev, dir, files, idx, pending, started, log, svgs, tiles, cat,
                   reports, temps, palette, layer, layers>>
    /\ UNCHANGED <<analysisVars, placeVars>>

ComposeFails ==
    /\ pc = "compose"
    /\ Catch
    /\ UNCHANGED temps

TempName == <<idx, layer>>

\* await sharp(...).png().toFile(tempFile) resolves
TempWriteOk ==
    /\ pc = "tempwrite"
    /\ temps' = temps \cup {TempName}
    /\ pc' = "trace"
    /\ UNCHANGED <<rev, dir, files, idx, pending, started, log, svgs, tiles, cat,
                   reports, palette, layer, layers>>
    /\ UNCHANGED <<analysisVars, placeVars>>

\* toFile rejects.  In hifi the await sits in the async function, so the
\* conversion rejects and the loop catches it.  In testlogos the await sits in
\* an async promise executor: the rejection is lost, resolve is never called
\* and the conversion the loop awaits never settles.
TempWriteFails ==
    /\ pc = "tempwrite"
    /\ IF rev = "testlogos"
       THEN /\ pc' = "hung"
            /\ UNCHANGED <<rev, dir, files, idx, pending, started, log, svgs, tiles,
                           cat, reports, temps, palette, layer, layers>>
            /\ UNCHANGED <<analysisVars, placeVars>>
       ELSE /\ Catch
            /\ UNCHANGED temps

\* what the layer loop does once a layer has its string
NextLayer(out) ==
    /\ layers' = Append(layers, out)
    /\ IF rev = "hifi" /\ layer < palette
       THEN /\ layer' = layer + 1
            /\ pc' = "tempwrite"
       ELSE /\ layer' = layer
            /\ pc' = "write"

\* Unlink left out of the tracer callback
UnlinkSkipped == temps

\* fs.unlinkSync(tempFile) in the tracer callback; staging traces a buffer
Unlink == IF rev = "staging" THEN temps ELSE temps \ {TempName}

\* TraceOk with an svg without path data taken as a failure of the file
TraceOkOrSkip ==
    /\ pc = "trace"
    /\ \/ /\ temps' = Unlink
          /\ NextLayer("path")
          /\ UNCHANGED <<rev, dir, files, idx, pending, started, log, svgs, tiles,
                         cat, reports, palette>>
          /\ UNCHANGED <<analysisVars, placeVars>>
       \/ /\ Catch
          /\ UNCHANGED temps

\* potrace calls back without err; the svg may hold no usable path
TraceOk ==
    /\ pc = "trace"
    /\ temps' = Unlink
    /\ \E out \in {"path", "empty"} : NextLayer(out)
    /\ UNCHANGED <<rev, dir, files, idx, pending, started, log, svgs, tiles, cat,
                   reports, palette>>
    /\ UNCHANGED <<analysisVars, placeVars>>

\* TraceErr rejecting in every revision
TraceErrRejects ==
    /\ pc = "trace"
    /\ Catch
    /\ UNCHANGED temps

\* potrace calls back with err: staging rejects, the others resolve('')
TraceErr ==
    /\ pc = "trace"
    /\ IF rev = "staging"
       THEN /\ Catch
            /\ UNCHANGED temps
       ELSE /\ temps' = Unlink
            /\ NextLayer("empty")
            /\ UNCHANGED <<rev, dir, files, idx, pending, started, log, svgs, tiles,
                           cat, reports, palette>>
            /\ UNCHANGED <<analysisVars, placeVars>>

\* Configure keyed by path.parse(file).ext instead of path.parse(file).name
ConfigureByExtension(f) ==
    IF rev = "staging"
    THEN Put(cat, f.ext, [svg |-> OutputName(f), from |-> f])
    ELSE cat

\* configOutput.style.theme.cat[cleanName] = {...}, staging only
Configure(f) ==
    IF rev = "staging"
    THEN Put(cat, CleanName(f), [svg |-> OutputName(f), from |-> f])
    ELSE cat

\* optimize and writeFileSync return, the conversion resolves, and the loop
\* body logs the file, adds its configuration entry and appends its tile
WriteOk ==
    /\ pc = "write"
    /\ svgs' = Put(svgs, OutputPath(rev, files[idx]), [from |-> files[idx], paths |-> layers])
    /\ log' = Append(log, [file |-> files[idx], result |-> "ok"])
    /\ cat' = Configure(files[idx])
    /\ tiles' = Append(tiles, files[idx])
    /\ pending' = pending \ {idx}
    /\ idx' = idx + 1
    /\ pc' = "loop"
    /\ palette' = 0 /\ layer' = 0 /\ layers' = <<>>
    /\ UNCHANGED <<rev, dir, files, started, reports, temps>>
    /\ UNCHANGED <<analysisVars, placeVars>>

\* optimize, mkdirSync or writeFileSync throws
WriteFails ==
    /\ pc = "write"
    /\ Catch
    /\ UNCHANGED temps

\* what the end of the batch writes: audit.html, then configuration.json
FinalWrites ==
    IF rev = "staging"
    THEN << [name |-> "audit.html", content |-> tiles],
            [name |-> "configuration.json", content |-> cat] >>
    ELSE << [name |-> "audit.html", content |-> tiles] >>

\* WriteReports moved into the loop body: the reports are rewritten per file
WriteReportsInLoop ==
    /\ pc = "loop"
    /\ Len(reports) < 6
    /\ reports' = reports \o FinalWrites
    /\ pc' = IF idx > Len(files) THEN "done" ELSE "loop"
    /\ UNCHANGED <<rev, dir, files, idx, pending, started, log, svgs, tiles, cat,
                   temps, palette, layer, layers>>
    /\ UNCHANGED <<analysisVars, placeVars>>

\* the loop is over: fs.writeFileSync(audit.html), fs.writeFileSync(CONFIG_FILE)
WriteReports ==
    /\ pc = "loop"
    /\ idx > Len(files)
    /\ reports' = reports \o FinalWrites
    /\ pc' = "done"
    /\ UNCHANGED <<rev, dir, files, idx, pending, started, log, svgs, tiles, cat,
                   temps, palette, layer, layers>>
    /\ UNCHANGED <<analysisVars, placeVars>>

Next ==
    \/ StartFile
    \/ ExtractOk
    \/ ExtractFails
    \/ ComposeOk
    \/ ComposeFails
    \/ TempWriteOk
    \/ TempWriteFails
    \/ TraceOk
    \/ TraceErr
    \/ WriteOk
    \/ WriteFails
    \/ WriteReports

Spec == Init /\ [][Next]_vars

(***************************************************************************)
(* The pixel analysis: extractAndTrim on the raster { data, info }         *)
(***************************************************************************)
MaxPixels == 4

Pixel(r, g, b, a) == [r |-> r, g |-> g, b |-> b, a |-> a]

\* the pixel values the rasters of the model are drawn from
PixelValues ==
    { Pixel(0, 0, 0, 0),          \* fully transparent
      Pixel(0, 0, 0, 30),         \* nearly transparent
      Pixel(255, 0, 0, 60),       \* translucent red
      Pixel(255, 255, 255, 255),  \* white
      Pixel(200, 200, 200, 255),  \* light grey
      Pixel(0, 0, 0, 255),        \* black
      Pixel(255, 0, 0, 255),      \* red
      Pixel(0, 0, 255, 255) }     \* blue

\* info.width, info.height of the rasters of the model
Shapes == { wh \in (1..MaxPixels) \X (1..MaxPixels) : wh[1] * wh[2] <= MaxPixels }

\* the longest of the one-row rasters on which the 10% rule is exercised
MaxStrip == 10

\* the widths of those rasters, and the two alpha values next to the cut-off
\* of the transparency count they are drawn from
StripWidths == 9..MaxStrip

StripValues == { Pixel(0, 0, 0, 49), Pixel(0, 0, 0, 50) }

\* d is a raster of the model: { data, info } with info.width * info.height pixels
IsRaster(d) ==
    \/ \E wh \in Shapes : \E q \in [1..(wh[1] * wh[2]) -> PixelValues] :
          d = [w |-> wh[1], h |-> wh[2], px |-> q]
    \/ \E n \in StripWidths : \E q \in [1..n -> StripValues] :
          d = [w |-> n, h |-> 1, px |-> q]

RECURSIVE Total(_)
Total(s) == IF s = <<>> THEN 0 ELSE Head(s) + Total(Tail(s))

\* Math.round(sum / n) for sum >= 0 and n > 0
RoundDiv(sum, n) == (2 * sum + n) \div (2 * n)

\* the rounded mean colour of a non-empty sequence of pixels
MeanColour(q) ==
    << RoundDiv(Total([i \in 1..Len(q) |-> q[i].r]), Len(q)),
       RoundDiv(Total([i \in 1..Len(q) |-> q[i].g]), Len(q)),
       RoundDiv(Total([i \in 1..Len(q) |-> q[i].b]), Len(q)) >>

\* if (data[i+3] < 50) transparentCount++
TransparencyAlpha == 50

\* TransparentCount with the comparison turned round
TransparentCountFlipped(d) ==
    Cardinality({ i \in 1..Len(d.px) : d.px[i].a > TransparencyAlpha })

\* TransparentCount counting only the pixels of alpha 0
TransparentCountZeroOnly(d) ==
    Cardinality({ i \in 1..Len(d.px) : d.px[i].a = 0 })

TransparentCount(d) ==
    Cardinality({ i \in 1..Len(d.px) : d.px[i].a < TransparencyAlpha })

\* IsTransparent with a count of exactly 10% taken as transparent
IsTransparentFromTenth(d) == TransparentCount(d) * 10 >= Len(d.px)

\* transparentCount > (data.length / 4) * 0.1
IsTransparent(d) == TransparentCount(d) * 10 > Len(d.px)

\* corners = [0, width-1, width*(height-1), width*height-1], here 1-based
Corners(d) == << 1, d.w, d.w * (d.h - 1) + 1, d.w * d.h >>

\* CASE A: the rounded mean of the four corner samples
CornerMean(d) == MeanColour([k \in 1..4 |-> d.px[Corners(d)[k]]])

\* if (data[i+3] > 100) in CASE B
OpaqueAlpha == 100

\* OpaqueMean taken over every pixel, whatever its alpha
OpaqueMeanOfAll(d) == MeanColour(d.px)

\* CASE B: the rounded mean of the visible pixels, white when there is none
OpaqueMean(d) ==
    LET q == SelectSeq(d.px, LAMBDA p : p.a > OpaqueAlpha)
    IN  IF Len(q) > 0 THEN MeanColour(q) ELSE <<255, 255, 255>>

HexDigits == << "0", "1", "2", "3", "4", "5", "6", "7",
                "8", "9", "a", "b", "c", "d", "e", "f" >>

\* c.toString(16).padStart(2, '0') for c in 0..255
HexByte(c) == << HexDigits[(c \div 16) + 1], HexDigits[(c % 16) + 1] >>

\* '#' + [r, g, b].map(...).join('')
Hex(rgb) == <<"#">> \o HexByte(rgb[1]) \o HexByte(rgb[2]) \o HexByte(rgb[3])

DigitValue(ch) == CHOOSE v \in 0..15 : HexDigits[v + 1] = ch

\* parseInt(digits, 16)
RECURSIVE ParseInt16(_)
ParseInt16(s) ==
    IF s = <<>> THEN 0
    ELSE 16 * ParseInt16(SubSeq(s, 1, Len(s) - 1)) + DigitValue(s[Len(s)])

\* rgb = parseInt(color.slice(1), 16); (rgb >> 16) & 0xff, (rgb >> 8) & 0xff, rgb & 0xff
ParseColour(hex) ==
    LET rgb == ParseInt16(Tail(hex))
    IN  << (rgb \div 65536) % 256, (rgb \div 256) % 256, rgb % 256 >>

\* 0.2126 * r + 0.7152 * g + 0.0722 * b, in ten-thousandths
Luma(rgb) == 2126 * rgb[1] + 7152 * rgb[2] + 722 * rgb[3]

\* isLogo = dist > 45
LogoDistance == 45

\* if (a < 100) isLogo = false
MaskAlpha == 100

DistSq(p, bg) ==
    (p.r - bg[1]) * (p.r - bg[1]) + (p.g - bg[2]) * (p.g - bg[2])
        + (p.b - bg[3]) * (p.b - bg[3])

\* IsLogo taking every visible pixel as logo, whatever its colour
IsLogoWhenVisible(p, bg) == ~(p.a < MaskAlpha)

\* the masking decision for one pixel
IsLogo(p, bg) ==
    IF p.a < MaskAlpha THEN FALSE
    ELSE DistSq(p, bg) > LogoDistance * LogoDistance

\* maskRaw: 0 for Foreground, 255 for Background, one value for the three
\* equal channels of a cell
MaskRaw(d, bg) ==
    [w |-> d.w, h |-> d.h,
     cells |-> [i \in 1..Len(d.px) |-> IF IsLogo(d.px[i], bg) THEN 0 ELSE 255]]

\* fgPixels
FgPixels(d, bg) == SelectSeq(d.px, LAMBDA p : IsLogo(p, bg))

\* FillColor averaged over every visible pixel, background pixels included
FillColorOfVisible(d, bg) ==
    LET vis == SelectSeq(d.px, LAMBDA p : ~(p.a < MaskAlpha))
    IN  IF Len(FgPixels(d, bg)) > 0 THEN Hex(MeanColour(vis)) ELSE Hex(<<0, 0, 0>>)

\* fillColor
FillColor(d, bg) ==
    LET fg == FgPixels(d, bg)
    IN  IF Len(fg) > 0 THEN Hex(MeanColour(fg)) ELSE Hex(<<0, 0, 0>>)

\* if (fillLuma > 150 && bgLuma > 150)
LightLuma == 150

\* ContrastColor without the override of two light colours
ContrastColorKept(fill, contrast) == contrast

\* ContrastColor with the override applied whenever the fill alone is light
ContrastColorLightFill(fill, contrast) ==
    IF Luma(ParseColour(fill)) > LightLuma * 10000
    THEN Hex(<<51, 51, 51>>)
    ELSE contrast

\* ContrastColor with the override applied whenever the background alone is light
ContrastColorLightBackground(fill, contrast) ==
    IF Luma(ParseColour(contrast)) > LightLuma * 10000
    THEN Hex(<<51, 51, 51>>)
    ELSE contrast

\* Refine Pin Contrast: the dark override when fill and background are light
ContrastColor(fill, contrast) ==
    IF /\ Luma(ParseColour(fill)) > LightLuma * 10000
       /\ Luma(ParseColour(contrast)) > LightLuma * 10000
    THEN Hex(<<51, 51, 51>>)
    ELSE contrast

\* .trim({ threshold: 10, ... })
TrimThreshold == 10

Cell(m, r, c) == m.cells[(r - 1) * m.w + c]

\* a cell that differs from the white background by more than the threshold
IsContent(m, r, c) == 255 - Cell(m, r, c) > TrimThreshold

ContentRows(m) == { r \in 1..m.h : \E c \in 1..m.w : IsContent(m, r, c) }
ContentCols(m) == { c \in 1..m.w : \E r \in 1..m.h : IsContent(m, r, c) }

Min(S) == CHOOSE x \in S : \A y \in S : x <= y
Max(S) == CHOOSE x \in S : \A y \in S : x >= y

\* the rows top..bottom and the columns left..right of m
Crop(m, top, bottom, left, right) ==
    [w |-> right - left + 1, h |-> bottom - top + 1,
     cells |-> [i \in 1..((right - left + 1) * (bottom - top + 1)) |->
                  Cell(m, top + ((i - 1) \div (right - left + 1)),
                          left + ((i - 1) % (right - left + 1)))]]

\* Trim with the left edge taken from the first content cell in scan order
TrimFromFirstCell(m) ==
    IF ContentRows(m) = {} THEN m
    ELSE LET top   == Min(ContentRows(m))
             first == Min({ c \in 1..m.w : IsContent(m, top, c) })
         IN  Crop(m, top, Max(ContentRows(m)), first, Max(ContentCols(m)))

\* sharp(...).trim({ threshold: 10, background: white }) on a mask: the crop
\* to the bounding box of the cells that are not background; a mask that
\* would be trimmed to nothing is left as it is
Trim(m) ==
    IF ContentRows(m) = {} THEN m
    ELSE Crop(m, Min(ContentRows(m)), Max(ContentRows(m)),
                 Min(ContentCols(m)), Max(ContentCols(m)))

\* the pixel at the geometric centre of d, as a colour
CentreSample(d) ==
    LET p == d.px[(d.h \div 2) * d.w + (d.w \div 2) + 1]
    IN  <<p.r, p.g, p.b>>

\* the centre colour is near more than 40% of the pixels and further than 50
\* from the first corner pixel
CentreDominant(d) ==
    /\ 100 * Cardinality({ i \in 1..Len(d.px) :
              DistSq(d.px[i], CentreSample(d)) <= LogoDistance * LogoDistance })
          > 40 * Len(d.px)
    /\ DistSq(d.px[1], CentreSample(d)) > 50 * 50

\* Background with a centre-dominant model beside the corner model
BackgroundWithCentre(d) ==
    IF IsTransparent(d) THEN OpaqueMean(d)
    ELSE IF CentreDominant(d) THEN CentreSample(d)
    ELSE CornerMean(d)

\* bgR, bgG, bgB
Background(d) == IF ~IsTransparent(d) THEN CornerMean(d) ELSE OpaqueMean(d)

\* what extractAndTrim returns for the raster d, with what it derived on the way
ExtractAndTrim(d) ==
    LET bg == Background(d)
        fill == FillColor(d, bg)
    IN  [ maskBuffer    |-> Trim(MaskRaw(d, bg)),
          fillColor     |-> fill,
          method        |-> IF IsTransparent(d) THEN "Transparent Drill-Down"
                                                ELSE "Box Drill-Down",
          contrastColor |-> ContrastColor(fill, Hex(bg)),
          bg            |-> bg,
          maskRaw       |-> MaskRaw(d, bg),
          fgCount       |-> Len(FgPixels(d, bg)) ]

\* no batch is running
BatchOff ==
    /\ dir = {} /\ files = <<>> /\ idx = 1 /\ pc = "off"
    /\ pending = {} /\ started = <<>> /\ log = <<>> /\ svgs = EmptyMap
    /\ tiles = <<>> /\ cat = EmptyMap /\ reports = <<>> /\ temps = {}
    /\ palette = 0 /\ layer = 0 /\ layers = <<>>

IdleBatch == rev = "staging" /\ BatchOff

InitAnalysis ==
    /\ input = NoAnalysis
    /\ IsRaster(data)
    /\ apc = "raw"
    /\ res = "none"
    /\ mask2 = "none"
    /\ traced = "none"
    /\ IdleBatch
    /\ IdlePlacement

\* extractAndTrim resolves
Analyse ==
    /\ apc = "raw"
    /\ res' = ExtractAndTrim(data)
    /\ apc' = "analysed"
    /\ UNCHANGED <<input, data, mask2, traced>>
    /\ UNCHANGED <<batchVars, placeVars>>

\* the trim of STEP 3 applied to the mask it returned
TrimAgain ==
    /\ apc = "analysed"
    /\ mask2' = Trim(res.maskBuffer)
    /\ apc' = "retrimmed"
    /\ UNCHANGED <<input, data, res, traced>>
    /\ UNCHANGED <<batchVars, placeVars>>

\* potrace.trace(buffer, params, callback) on the canvas that carries the
\* mask m: the svg documents it may hand to the callback, each reduced to the
\* d attribute of its path.  A canvas without a dark cell has nothing to
\* trace; a shape smaller than turdSize is dropped.
Potrace(m) ==
    IF ContentRows(m) = {} THEN { [d |-> ""] }
    ELSE { [d |-> "M"], [d |-> ""] }

\* svg.match(/d="([^"]+)"/): the captured group, or null without a non-empty d
DMatch(svg) == IF svg.d = "" THEN "null" ELSE svg.d

\* TraceBuffer that rejects when the svg holds no path data
TraceBufferStrict(svg) ==
    IF DMatch(svg) = "null"
    THEN [settled |-> "rejected", value |-> "no path"]
    ELSE [settled |-> "resolved", value |-> DMatch(svg)]

\* traceBuffer's callback without err: resolve(dMatch ? dMatch[1] : '')
TraceBuffer(svg) ==
    [settled |-> "resolved",
     value   |-> IF DMatch(svg) = "null" THEN "" ELSE DMatch(svg)]

\* convertLogo after extractAndTrim: the mask is resized, composited onto the
\* white canvas and traced; a resolved trace is followed by the write
Trace ==
    /\ apc = "analysed"
    /\ \E svg \in Potrace(res.maskBuffer) :
          /\ traced' = TraceBuffer(svg)
          /\ apc' = IF TraceBuffer(svg).settled = "resolved"
                    THEN "converted" ELSE "failed"
    /\ UNCHANGED <<input, data, res, mask2>>
    /\ UNCHANGED <<batchVars, placeVars>>

NextAnalysis ==
    \/ Analyse
    \/ TrimAgain
    \/ Trace

SpecAnalysis == InitAnalysis /\ [][NextAnalysis]_vars

(***************************************************************************)
(* extractAndTrim from the raster of the input file: STEP 1, the first     *)
(* trim, and then the analysis above                                       *)
(***************************************************************************)
Abs(x) == IF x < 0 THEN 0 - x ELSE x

\* the pixel of row r and column c of the raster d
PixelAt(d, r, c) == d.px[(r - 1) * d.w + c]

\* a pixel that is not similar to the background pixel q: some channel,
\* alpha included, is further from it than the threshold
Differs(p, q) ==
    \/ Abs(p.r - q.r) > TrimThreshold
    \/ Abs(p.g - q.g) > TrimThreshold
    \/ Abs(p.b - q.b) > TrimThreshold
    \/ Abs(p.a - q.a) > TrimThreshold

\* the rows and columns of d that hold a pixel unlike its top-left pixel
EdgeRows(d) == { r \in 1..d.h : \E c \in 1..d.w : Differs(PixelAt(d, r, c), d.px[1]) }
EdgeCols(d) == { c \in 1..d.w : \E r \in 1..d.h : Differs(PixelAt(d, r, c), d.px[1]) }

\* the rows top..bottom and the columns left..right of the raster d
CropRaster(d, top, bottom, left, right) ==
    [w |-> right - left + 1, h |-> bottom - top + 1,
     px |-> [i \in 1..((right - left + 1) * (bottom - top + 1)) |->
               PixelAt(d, top + ((i - 1) \div (right - left + 1)),
                          left + ((i - 1) % (right - left + 1)))]]

\* FirstTrim left out: the input is analysed with its margin
FirstTrimSkipped(d) == d

\* sharp(inputPath).trim({ threshold: 10 }): the edges similar to the
\* top-left pixel are cut off; an image with nothing else is left as it is
FirstTrim(d) ==
    IF EdgeRows(d) = {} THEN d
    ELSE CropRaster(d, Min(EdgeRows(d)), Max(EdgeRows(d)),
                       Min(EdgeCols(d)), Max(EdgeCols(d)))

InitPipeline ==
    /\ IsRaster(input)
    /\ data = NoAnalysis
    /\ apc = "file"
    /\ res = "none"
    /\ mask2 = "none"
    /\ traced = "none"
    /\ IdleBatch
    /\ IdlePlacement

\* STEP 1 resolves and the trimmed image is read as { data, info }
TrimInput ==
    /\ apc = "file"
    /\ data' = FirstTrim(input)
    /\ apc' = "raw"
    /\ UNCHANGED <<input, res, mask2, traced>>
    /\ UNCHANGED <<batchVars, placeVars>>

NextPipeline ==
    \/ TrimInput
    \/ Analyse
    \/ TrimAgain
    \/ Trace

SpecPipeline == InitPipeline /\ [][NextPipeline]_vars

(***************************************************************************)
(* The mask constructions of the revisions: extractAndTrim (latest and     *)
(* earlier), createTraceMask with analyzeImageColors, and the layer masks  *)
(* of convertToHighFidelity                                                *)
(***************************************************************************)
\* the pixel values of the rasters the mask constructions are compared on:
\* alpha on either side of the cut-offs 100 and 128
MaskPixelValues ==
    { Pixel(0, 0, 0, 0),
      Pixel(255, 0, 0, 99),
      Pixel(255, 0, 0, 100),
      Pixel(0, 0, 255, 127),
      Pixel(0, 0, 255, 128),
      Pixel(255, 255, 255, 255),
      Pixel(0, 0, 0, 255) }

IsMaskRaster(d) ==
    \E wh \in Shapes : \E q \in [1..(wh[1] * wh[2]) -> MaskPixelValues] :
        d = [w |-> wh[1], h |-> wh[2], px |-> q]

MaskRevisions == Revisions \cup {"earlier"}

ColourAt(d, i) == << d.px[i].r, d.px[i].g, d.px[i].b >>

\* Object.keys(colorCounts).sort((a, b) => colorCounts[b] - colorCounts[a])
\* for the histogram of the pixels at the positions S: the colours by falling
\* count, colours of equal count in the order they were first met
SortedColours(d, S) ==
    LET keys     == { ColourAt(d, i) : i \in S }
        count(c) == Cardinality({ i \in S : ColourAt(d, i) = c })
        first(c) == Min({ i \in S : ColourAt(d, i) = c })
        rank(c)  == 1 + Cardinality({ k \in keys :
                          \/ count(k) > count(c)
                          \/ count(k) = count(c) /\ first(k) < first(c) })
    IN  [n \in 1..Cardinality(keys) |-> Hex(CHOOSE c \in keys : rank(c) = n)]

\* the earlier extractAndTrim: every visible pixel of a transparent image is logo
IsLogoEarlier(p, bg, transparent) ==
    IF p.a < MaskAlpha THEN FALSE
    ELSE IF transparent THEN TRUE
    ELSE DistSq(p, bg) > LogoDistance * LogoDistance

\* the earlier extractAndTrim: bgR, bgG, bgB stay 0 for a transparent image
BackgroundEarlier(d) == IF ~IsTransparent(d) THEN CornerMean(d) ELSE <<0, 0, 0>>

\* analyzeImageColors: if (data[i+3] > 200) for a corner
SolidCornerAlpha == 200

\* analyzeImageColors: the corner samples that are solid
SolidCorners(d) ==
    SelectSeq([k \in 1..4 |-> d.px[Corners(d)[k]]], LAMBDA p : p.a > SolidCornerAlpha)

\* hasBoxBg = count > 2
HasBoxBg(d) == Len(SolidCorners(d)) > 2

\* bgR, bgG, bgB of analyzeImageColors
BoxBackground(d) ==
    IF HasBoxBg(d) THEN MeanColour(SolidCorners(d)) ELSE <<255, 255, 255>>

\* analyzeImageColors: if (a < 128) continue
HistogramAlpha == 128

\* analyzeImageColors: the positions counted in colorCounts
CountedForeground(d) ==
    { i \in 1..Len(d.px) :
        /\ ~(d.px[i].a < HistogramAlpha)
        /\ DistSq(d.px[i], BoxBackground(d)) > LogoDistance * LogoDistance }

\* fgColorHex
FgColorHex(d) ==
    LET sorted == SortedColours(d, CountedForeground(d))
    IN  IF Len(sorted) > 0 THEN sorted[1] ELSE Hex(<<0, 0, 0>>)

\* createTraceMask: if (a < 128), and shouldTrace = dist > 40
TraceAlpha == 128
TraceDistance == 40

\* createTraceMask(inputPath, bgColorObj, targetSize): val per pixel
CreateTraceMask(d) ==
    [i \in 1..Len(d.px) |->
        IF d.px[i].a < TraceAlpha THEN 255
        ELSE IF HasBoxBg(d)
        THEN IF DistSq(d.px[i], BoxBackground(d)) > TraceDistance * TraceDistance
             THEN 0 ELSE 255
        ELSE 0]

\* convertToHighFidelity: if (a < 128) continue, and the light-grey filter
PaletteAlpha == 128
LightGrey == 220

\* convertToHighFidelity: the positions counted in colorCounts
CountedColours(d) ==
    { i \in 1..Len(d.px) :
        /\ ~(d.px[i].a < PaletteAlpha)
        /\ ~(d.px[i].r > LightGrey /\ d.px[i].g > LightGrey /\ d.px[i].b > LightGrey) }

\* TopColors without slice(0, 3)
TopColorsUnsliced(d) ==
    LET sorted == SortedColours(d, CountedColours(d))
    IN  IF Len(sorted) = 0 THEN << Hex(<<0, 0, 0>>) >> ELSE sorted

\* sortedColors: the PaletteMax most frequent colours, ['#000000'] without any
TopColors(d) ==
    LET sorted == SortedColours(d, CountedColours(d))
    IN  IF Len(sorted) = 0 THEN << Hex(<<0, 0, 0>>) >>
        ELSE SubSeq(sorted, 1, Min({PaletteMax, Len(sorted)}))

\* rT, gT, bT = parseInt(color.slice(1, 3), 16), ...
LayerTarget(color) ==
    << ParseInt16(SubSeq(color, 2, 3)), ParseInt16(SubSeq(color, 4, 5)),
       ParseInt16(SubSeq(color, 6, 7)) >>

\* convertToHighFidelity: if (alpha < 128), and val = dist < 50 ? 0 : 255
PaperAlpha == 128
LayerDistance == 50

\* LayerMask without the paper rule for transparent pixels
LayerMaskOfAnyAlpha(d, color) ==
    [i \in 1..Len(d.px) |->
        IF DistSq(d.px[i], LayerTarget(color)) < LayerDistance * LayerDistance
        THEN 0 ELSE 255]

\* maskPixels of the layer traced for color
LayerMask(d, color) ==
    [i \in 1..Len(d.px) |->
        IF d.px[i].a < PaperAlpha THEN 255
        ELSE IF DistSq(d.px[i], LayerTarget(color)) < LayerDistance * LayerDistance
        THEN 0 ELSE 255]

\* what the revision r builds from the raster d: the masks it traces, the
\* positions whose colour is counted towards the fill, and the fill colours
MaskOf(r, d) ==
    CASE r = "staging" ->
           [ masks   |-> << MaskRaw(d, Background(d)).cells >>,
             counted |-> { i \in 1..Len(d.px) : IsLogo(d.px[i], Background(d)) },
             fills   |-> << FillColor(d, Background(d)) >> ]
      [] r = "earlier" ->
           LET logo(i) == IsLogoEarlier(d.px[i], BackgroundEarlier(d), IsTransparent(d))
               fg      == SelectSeq(d.px, LAMBDA p :
                              IsLogoEarlier(p, BackgroundEarlier(d), IsTransparent(d)))
           IN  [ masks   |-> << [i \in 1..Len(d.px) |-> IF logo(i) THEN 0 ELSE 255] >>,
                 counted |-> { i \in 1..Len(d.px) : logo(i) },
                 fills   |-> << IF Len(fg) > 0 THEN Hex(MeanColour(fg))
                                               ELSE Hex(<<0, 0, 0>>) >> ]
      [] r = "testlogos" ->
           [ masks   |-> << CreateTraceMask(d) >>,
             counted |-> CountedForeground(d),
             fills   |-> << FgColorHex(d) >> ]
      [] r = "hifi" ->
           [ masks   |-> [k \in 1..Len(TopColors(d)) |-> LayerMask(d, TopColors(d)[k])],
             counted |-> CountedColours(d),
             fills   |-> TopColors(d) ]

InitMasks ==
    /\ rev \in MaskRevisions
    /\ BatchOff
    /\ input = NoAnalysis
    /\ IsMaskRaster(data)
    /\ apc = "raw"
    /\ res = "none"
    /\ mask2 = "none"
    /\ traced = "none"
    /\ IdlePlacement

\* the masking loop of the revision runs over the raster
BuildMask ==
    /\ apc = "raw"
    /\ res' = MaskOf(rev, data)
    /\ apc' = "masked"
    /\ UNCHANGED <<input, data, mask2, traced>>
    /\ UNCHANGED <<batchVars, placeVars>>

NextMasks == BuildMask

SpecMasks == InitMasks /\ [][NextMasks]_vars

(***************************************************************************)
(* The colour analysis of convertToHighFidelity, in its two revisions      *)
(***************************************************************************)
\* the pixel values of the rasters the histogram is taken of: five colours
\* that are counted, two light ones, and alpha on either side of 128
PalettePixelValues ==
    { Pixel(0, 255, 0, 127),
      Pixel(255, 255, 255, 255),
      Pixel(230, 230, 230, 255),
      Pixel(0, 0, 0, 255),
      Pixel(255, 0, 0, 255),
      Pixel(0, 0, 255, 255),
      Pixel(0, 255, 0, 128) }

IsPaletteRaster(d) ==
    \E wh \in Shapes : \E q \in [1..(wh[1] * wh[2]) -> PalettePixelValues] :
        d = [w |-> wh[1], h |-> wh[2], px |-> q]

HistogramRevisions == {"hifi", "part000"}

\* the first revision: if (r > 240 && g > 240 && b > 240) continue
NearWhite == 240

\* the first revision: the positions counted in colorCounts
CountedColoursFirst(d) ==
    { i \in 1..Len(d.px) :
        /\ ~(d.px[i].a < PaletteAlpha)
        /\ ~(d.px[i].r > NearWhite /\ d.px[i].g > NearWhite /\ d.px[i].b > NearWhite) }

\* the first revision: sortedColors
TopColorsFirst(d) ==
    LET sorted == SortedColours(d, CountedColoursFirst(d))
    IN  IF Len(sorted) = 0 THEN << Hex(<<0, 0, 0>>) >>
        ELSE SubSeq(sorted, 1, Min({PaletteMax, Len(sorted)}))

\* what the revision r returns for the raster d
SortedColorsOf(r, d) == IF r = "part000" THEN TopColorsFirst(d) ELSE TopColors(d)

InitPalette ==
    /\ rev \in HistogramRevisions
    /\ BatchOff
    /\ input = NoAnalysis
    /\ IsPaletteRaster(data)
    /\ apc = "raw"
    /\ res = "none"
    /\ mask2 = "none"
    /\ traced = "none"
    /\ IdlePlacement

\* the histogram loop runs over the raster and the colours are sorted
CountColours ==
    /\ apc = "raw"
    /\ res' = [ sortedColors |-> SortedColorsOf(rev, data) ]
    /\ apc' = "counted"
    /\ UNCHANGED <<input, data, mask2, traced>>
    /\ UNCHANGED <<batchVars, placeVars>>

NextPalette == CountColours

SpecPalette == InitPalette /\ [][NextPalette]_vars

(***************************************************************************)
(* The placement arithmetic of convertLogo                                 *)
(***************************************************************************)
VIEWBOX_SIZE == 24
SCALE == 10
PROCESS_CANVAS == VIEWBOX_SIZE * SCALE
HEAD_CENTER_X == 12 * SCALE
HEAD_CENTER_Y == 9 * SCALE

\* RoundedOffset with the size not halved: the far edge is put on the anchor
OffsetOfFarEdge(center, size) == center - size

\* Math.round(center - size / 2): the nearest integer, a half rounding up
RoundedOffset(center, size) == (2 * center - size + 1) \div 2

\* AtLeastZero without the clamp
Unclamped(x) == x

\* Math.max(0, x)
AtLeastZero(x) == IF x > 0 THEN x ELSE 0

\* the top and left of the composite call
Placement(b) ==
    [ top  |-> AtLeastZero(RoundedOffset(HEAD_CENTER_Y, b.height)),
      left |-> AtLeastZero(RoundedOffset(HEAD_CENTER_X, b.width)) ]

InitPlacement ==
    /\ box \in [width : 1..PROCESS_CANVAS, height : 1..PROCESS_CANVAS]
    /\ place = "none"
    /\ ppc = "resized"
    /\ point = "none" /\ drawn = "none"
    /\ IdleBatch
    /\ IdleAnalysis

\* left, top and the composite of the resized mask onto the canvas
Place ==
    /\ ppc = "resized"
    /\ place' = Placement(box)
    /\ ppc' = "placed"
    /\ UNCHANGED <<box, point, drawn>>
    /\ UNCHANGED <<batchVars, analysisVars>>

NextPlacement == Place

SpecPlacement == InitPlacement /\ [][NextPlacement]_vars

(***************************************************************************)
(* The assembly of the SVG around the traced path, in each revision        *)
(***************************************************************************)
\* the revisions of the model and the first histogram revision, which
\* assembles its SVG without a group
AssemblyRevisions == Revisions \cup {"part000"}

\* .resize(256, 256, { fit: 'contain', ... }) of the histogram revisions
SquareCanvas == 256

\* the side of the canvas the tracer is given
CanvasSide(r) == IF r \in {"hifi", "part000"} THEN SquareCanvas ELSE PROCESS_CANVAS

\* a fraction n / d
Fraction(n, d) == [num |-> n, den |-> d]

\* <g transform="scale(...)">: 1/SCALE, the literal 0.09375, or no group
GroupScale(r) ==
    CASE r \in {"staging", "testlogos"} -> Fraction(1, SCALE)
      [] r = "hifi"                      -> Fraction(9375, 100000)
      [] r = "part000"                   -> Fraction(1, 1)

\* the extent of the viewBox written into the assembled SVG
ViewBoxSide(r) ==
    CASE r \in {"staging", "testlogos"} -> VIEWBOX_SIZE
      [] r = "hifi"                      -> 24
      [] r = "part000"                   -> SquareCanvas

\* the viewBox after optimize: the first histogram revision asks the optimizer
\* to add viewBox '0 0 24 24' to an svg element that has one already, which
\* the optimizer either keeps or replaces
OptimizedViewBox(r) ==
    IF r = "part000" THEN { ViewBoxSide(r), 24 } ELSE { ViewBoxSide(r) }

\* the user-space coordinate of the canvas coordinate x inside the group
Scaled(r, x) == Fraction(x * GroupScale(r).num, GroupScale(r).den)

\* the points of the model: along the top and the bottom edge of the canvas
InitAssembly ==
    /\ rev \in AssemblyRevisions
    /\ BatchOff
    /\ IdleAnalysis
    /\ box = [width |-> 0, height |-> 0] /\ place = "none"
    /\ ppc = "traced"
    /\ point \in [x : 0..CanvasSide(rev), y : {0, CanvasSide(rev)}]
    /\ drawn = "none"

\* rawSvg / fullSvg is assembled around the path and optimized
Assemble ==
    /\ ppc = "traced"
    /\ \E vb \in OptimizedViewBox(rev) :
          drawn' = [x |-> Scaled(rev, point.x), y |-> Scaled(rev, point.y), viewBox |-> vb]
    /\ ppc' = "assembled"
    /\ UNCHANGED <<box, place, point>>
    /\ UNCHANGED <<batchVars, analysisVars>>

NextAssembly == Assemble

SpecAssembly == InitAssembly /\ [][NextAssembly]_vars

(***************************************************************************)
(* Properties of the batch                                                 *)
(***************************************************************************)
\* the positions of log with the given result
Logged(r) == { i \in 1..Len(log) : log[i].result = r }

\* a step in which the conversion of files[idx] settles as a failure
FailureStep ==
    /\ InConversion
    /\ Len(log') = Len(log) + 1
    /\ log'[Len(log')] = [file |-> files[idx], result |-> "error"]

\* how many times the report called n has been written
Written(n) == Cardinality({ i \in 1..Len(reports) : reports[i].name = n })

\* the revisions whose processAllLogos C1 is drawn from; the testlogos
\* revision, whose tracer can leave the loop suspended, is settled under C2
IsolatingRevisions == {"staging", "hifi"}

\* C1: when the conversion of one file fails, at whatever stage, the loop
\* moves on to the next file with the SVG outputs, the audit tiles and the
\* theme-config entries of the earlier files unchanged, and a batch that has
\* ended has attempted every enumerated file.
C1_FailureIsolated ==
    /\ [][ (rev \in IsolatingRevisions /\ FailureStep) =>
             /\ idx' = idx + 1
             /\ pc' = "loop"
             /\ svgs' = svgs
             /\ tiles' = tiles
             /\ cat' = cat ]_vars
    /\ [](rev \in IsolatingRevisions /\ pc \in {"done", "crashed"} => started = files)

C1_Witness ==
    /\ rev \in IsolatingRevisions
    /\ \E i \in Logged("ok") : \E j \in Logged("error") :
          /\ i < j
          /\ Len(started) > j
          /\ OutputPath(rev, log[i].file) \in DOMAIN svgs
          /\ Len(tiles) > 0

\* C2: whatever the per-file outcomes, the batch leaves the loop and writes
\* the audit report: it never stops before audit.html is written.
C2_BatchCompletes == (ENABLED Next) \/ Written("audit.html") > 0

\* C8: in the config-generating revision the keys of cat are at every point
\* the base names of the files converted successfully so far, and a failed
\* conversion leaves cat as it was.
C8_ConfigKeys ==
    /\ [](rev = "staging" =>
            DOMAIN cat = { CleanName(log[i].file) : i \in Logged("ok") })
    /\ [][ FailureStep => cat' = cat ]_vars

C8_Witness ==
    /\ rev = "staging"
    /\ Logged("ok") # {} /\ Logged("error") # {}
    /\ Cardinality(DOMAIN cat) = 2

\* C9: the audit report and the theme configuration are written at most once,
\* never before every selected file has been attempted and settled, and a
\* finished batch has written each exactly once.
C9_ReportsOnceAtEnd ==
    /\ Written("audit.html") <= 1
    /\ Written("configuration.json") <= 1
    /\ reports # <<>> =>
          /\ started = files
          /\ pending = {}
          /\ ~InConversion
          /\ Len(log) = Len(files)
    /\ pc = "done" =>
          /\ Written("audit.html") = 1
          /\ rev = "staging" => Written("configuration.json") = 1

C9_Witness ==
    /\ pc = "done" /\ rev = "staging"
    /\ Len(files) >= 2
    /\ Logged("error") # {}
    /\ Written("audit.html") = 1 /\ Written("configuration.json") = 1

\* C10: the files are attempted one at a time, in enumeration order, each
\* once and never again after a failure, and at most one conversion is in
\* progress at any time.
C10_Sequential ==
    /\ Len(started) <= Len(files)
    /\ started = SubSeq(files, 1, Len(started))
    /\ Cardinality(pending) <= 1
    /\ pending \subseteq {idx}
    /\ Len(started) = (idx - 1) + Cardinality(pending)
    /\ pc = "done" => started = files

C10_Witness ==
    /\ pc = "done"
    /\ Len(files) >= 3
    /\ Logged("error") # {} /\ Logged("ok") # {}
    /\ started = files

\* C11: every file converted successfully has the SVG named by replacing its
\* extension with .svg, and after a batch in which every conversion succeeded
\* the number of SVG files written and the number of theme-configuration
\* entries both equal the number of input files.
C11_OneOutputPerInput ==
    /\ \A i \in Logged("ok") : OutputPath(rev, log[i].file) \in DOMAIN svgs
    /\ (pc = "done" /\ Logged("error") = {}) =>
          /\ Cardinality(DOMAIN svgs) = Len(files)
          /\ rev = "staging" => Cardinality(DOMAIN cat) = Len(files)

\* the raster extensions a batch is said to recognise
RasterExtensions == {"png", "jpg", "jpeg", "webp"}

\* C12: the files attempted in a batch are exactly the entries the directory
\* held at batch start whose extension is, case-insensitively, one of .png,
\* .jpg, .jpeg, .webp; nothing else (no file created during the run) is ever
\* attempted.
C12_AttemptedAreListed ==
    /\ \A i \in 1..Len(started) :
          /\ started[i] \in dir
          /\ Lower(started[i].ext) \in RasterExtensions
    /\ pc = "done" =>
          { started[i] : i \in 1..Len(started) }
             = { f \in dir : Lower(f.ext) \in RasterExtensions }

\* a step in which the tracer of files[idx] has called back
TraceStep == pc = "trace" /\ vars' # vars

HasTile(f) == \E k \in 1..Len(tiles) : tiles[k] = f

\* C28: the outputs of a file are all-or-nothing: when the batch has ended, a
\* file has an audit tile if and only if its SVG was written in this run and,
\* in the config-generating revision, if and only if it has an entry in the
\* theme configuration.
C28_AllOrNothing ==
    pc = "done" =>
        \A i \in 1..Len(files) :
            /\ HasTile(files[i]) <=> OutputPath(rev, files[i]) \in DOMAIN svgs
            /\ rev = "staging" =>
                  (HasTile(files[i]) <=> CleanName(files[i]) \in DOMAIN cat)

C30_LayerErrorTolerated ==
    /\ [][ (rev = "hifi" /\ TraceStep) =>
             /\ ~FailureStep
             /\ log' = log
             /\ layers' \in { Append(layers, "path"), Append(layers, "empty") }
             /\ IF layer < palette
                THEN layer' = layer + 1 /\ pc' = "tempwrite"
                ELSE pc' = "write" ]_vars
    /\ [](rev = "hifi" =>
            /\ pc \in {"tempwrite", "trace"} => Len(layers) = layer - 1
            /\ pc = "write" => Len(layers) = palette)
    /\ [][ (rev = "hifi" /\ pc = "write" /\ vars' # vars /\ ~FailureStep) =>
             /\ svgs'[OutputPath(rev, files[idx])].paths = layers
             /\ log' = Append(log, [file |-> files[idx], result |-> "ok"])
             /\ tiles' = Append(tiles, files[idx]) ]_vars

C30_Witness ==
    /\ rev = "hifi"
    /\ Len(log) = 1 /\ log[1].result = "ok"
    /\ svgs[OutputPath(rev, log[1].file)].paths = <<"empty", "path", "path">>
    /\ tiles = << log[1].file >>

(***************************************************************************)
(* Properties of the analysis                                              *)
(***************************************************************************)
Analysed == apc \in {"analysed", "retrimmed"}

AllOpaque == \A i \in 1..Len(data.px) : data.px[i].a = 255

\* the pixels the classifier counts as transparent
TransparentPixels == { i \in 1..Len(data.px) : data.px[i].a < TransparencyAlpha }

\* C3: a non-empty raster whose pixels all have alpha 255 is never classified
\* Transparent: the method label is 'Box Drill-Down' and the background colour
\* is the rounded mean of the four corner samples.
C3_OpaqueIsBox ==
    (Analysed /\ Len(data.px) > 0 /\ AllOpaque) =>
        /\ res.method = "Box Drill-Down"
        /\ res.bg = CornerMean(data)

C3_Witness ==
    /\ apc = "analysed" /\ AllOpaque
    /\ data.w = 2 /\ data.h = 2
    /\ data.px[1] # data.px[2]
    /\ res.method = "Box Drill-Down"
    /\ res.fgCount > 0

C6_ContrastIsDark ==
    (/\ Analysed
     /\ Luma(ParseColour(res.fillColor)) > LightLuma * 10000
     /\ Luma(res.bg) > LightLuma * 10000) =>
        Luma(ParseColour(res.contrastColor)) < LightLuma * 10000

C6_Witness ==
    /\ apc = "analysed"
    /\ res.fgCount > 0
    /\ Luma(ParseColour(res.fillColor)) > LightLuma * 10000
    /\ Luma(res.bg) > LightLuma * 10000
    /\ res.contrastColor = <<"#", "3", "3", "3", "3", "3", "3">>

\* C7: trimming a trimmed mask that has a Foreground cell changes nothing:
\* the same cells come back, and their bounding box is the whole frame.
C7_TrimIdempotent ==
    (apc = "retrimmed" /\ res.fgCount > 0) =>
        /\ mask2 = res.maskBuffer
        /\ Min(ContentRows(mask2)) = 1 /\ Max(ContentRows(mask2)) = mask2.h
        /\ Min(ContentCols(mask2)) = 1 /\ Max(ContentCols(mask2)) = mask2.w

C7_Witness ==
    /\ apc = "retrimmed"
    /\ res.fgCount > 0
    /\ res.maskBuffer # res.maskRaw
    /\ mask2 = res.maskBuffer

\* the cells of the untrimmed mask written as Foreground
ForegroundCells == { i \in 1..Len(res.maskRaw.cells) : res.maskRaw.cells[i] = 0 }

\* the positions of data holding the pixel value p
PixelsOf(p) == { i \in 1..Len(data.px) : data.px[i] = p }

Black == <<"#", "0", "0", "0", "0", "0", "0">>

\* Scenario B on a raster of the model: fully transparent pixels around
\* opaque black ones
ScenarioB ==
    /\ PixelsOf(Pixel(0, 0, 0, 0)) # {}
    /\ PixelsOf(Pixel(0, 0, 0, 255)) # {}
    /\ PixelsOf(Pixel(0, 0, 0, 0)) \cup PixelsOf(Pixel(0, 0, 0, 255)) = 1..Len(data.px)

\* C13: for an image that is fully transparent except for opaque black
\* pixels, the classifier selects Transparent, the Foreground cells of the
\* mask are exactly the black pixels, and the fill colour is #000000.
C13_ScenarioB ==
    (Analysed /\ ScenarioB) =>
        /\ res.method = "Transparent Drill-Down"
        /\ ForegroundCells = PixelsOf(Pixel(0, 0, 0, 255))
        /\ res.fillColor = Black

\* the positions of input holding the pixel value p
InputPixelsOf(p) == { i \in 1..Len(input.px) : input.px[i] = p }

\* the rows and the columns of input that hold a pure red pixel
RedRows == { r \in 1..input.h : \E c \in 1..input.w :
                PixelAt(input, r, c) = Pixel(255, 0, 0, 255) }
RedCols == { c \in 1..input.w : \E r \in 1..input.h :
                PixelAt(input, r, c) = Pixel(255, 0, 0, 255) }

\* Scenario A on a raster of the model: a fully opaque input of white and
\* pure red pixels, the red ones a solid rectangle, the four corners white
ScenarioA ==
    /\ InputPixelsOf(Pixel(255, 0, 0, 255)) # {}
    /\ InputPixelsOf(Pixel(255, 0, 0, 255)) \cup InputPixelsOf(Pixel(255, 255, 255, 255))
          = 1..Len(input.px)
    /\ \A r \in Min(RedRows)..Max(RedRows) : \A c \in Min(RedCols)..Max(RedCols) :
          PixelAt(input, r, c) = Pixel(255, 0, 0, 255)
    /\ \A k \in 1..4 : input.px[Corners(input)[k]] = Pixel(255, 255, 255, 255)

\* C14: for a fully opaque input showing pure red on a white background the
\* pipeline (first trim, classification, masking) selects the corner model
\* with background white, the Foreground of the mask is the whole red area,
\* and the fill colour is #ff0000.
C14_ScenarioA ==
    (Analysed /\ ScenarioA) =>
        /\ res.method = "Box Drill-Down"
        /\ res.bg = <<255, 255, 255>>
        /\ Cardinality(ForegroundCells) = Cardinality(InputPixelsOf(Pixel(255, 0, 0, 255)))
        /\ res.fillColor = <<"#", "f", "f", "0", "0", "0", "0">>

\* C14, amended: for such an input the first trim cuts the white margin off,
\* so the analysed raster is the red square alone: the corner model is
\* selected with background red, the mask has no Foreground cell, the fill
\* colour is the default #000000 and the contrast colour is #ff0000.
C14_TrimmedToRed ==
    (Analysed /\ ScenarioA) =>
        /\ PixelsOf(Pixel(255, 0, 0, 255)) = 1..Len(data.px)
        /\ Len(data.px) = Cardinality(InputPixelsOf(Pixel(255, 0, 0, 255)))
        /\ res.method = "Box Drill-Down"
        /\ res.bg = <<255, 0, 0>>
        /\ ForegroundCells = {}
        /\ res.fillColor = Black
        /\ res.contrastColor = <<"#", "f", "f", "0", "0", "0", "0">>

C14_Witness ==
    /\ apc = "analysed"
    /\ ScenarioA
    /\ input.w = 4 /\ input.h = 1
    /\ data.w = 2 /\ data.h = 1
    /\ res.bg = <<255, 0, 0>>
    /\ res.fgCount = 0

\* Scenario C on a raster of the model: a fully opaque raster of blue and
\* white pixels whose four corners are blue
ScenarioC ==
    /\ PixelsOf(Pixel(255, 255, 255, 255)) # {}
    /\ PixelsOf(Pixel(0, 0, 255, 255)) \cup PixelsOf(Pixel(255, 255, 255, 255))
          = 1..Len(data.px)
    /\ \A k \in 1..4 : data.px[Corners(data)[k]] = Pixel(0, 0, 255, 255)

C16_EmptyForeground ==
    (apc \in {"analysed", "retrimmed", "converted", "failed"} /\ res.fgCount = 0) =>
        /\ res.fillColor = Black
        /\ apc # "failed"
        /\ apc = "converted" => traced = [settled |-> "resolved", value |-> ""]

C16_Witness ==
    /\ apc = "converted"
    /\ Len(data.px) = 4
    /\ PixelsOf(Pixel(255, 255, 255, 255)) = 1..Len(data.px)
    /\ res.fgCount = 0
    /\ res.fillColor = Black
    /\ traced = [settled |-> "resolved", value |-> ""]

\* C17: the classifier selects Transparent if and only if the number of
\* pixels with alpha below 50 is strictly greater than 10% of the pixel count;
\* with exactly 10% the raster is classified as opaque.
C17_TenPercentRule ==
    Analysed =>
        /\ res.method = "Transparent Drill-Down"
              <=> 10 * Cardinality(TransparentPixels) > Len(data.px)
        /\ 10 * Cardinality(TransparentPixels) = Len(data.px)
              => res.method = "Box Drill-Down"

C17_Witness ==
    /\ apc = "analysed"
    /\ Len(data.px) = 10
    /\ Cardinality(TransparentPixels) = 1
    /\ \E i \in 1..Len(data.px) : data.px[i].a = 49
    /\ res.method = "Box Drill-Down"

\* the raster is not classified Transparent
Opaque == 10 * Cardinality(TransparentPixels) <= Len(data.px)

Visible == SelectSeq(data.px, LAMBDA p : p.a > 100)

\* v is the sum s divided by n > 0 and rounded to the nearest integer, a half
\* rounding up
IsRoundedMean(v, s, n) == 2 * s - n < 2 * n * v /\ 2 * n * v <= 2 * s + n

\* C19: under the Transparent model the background colour, which masking
\* measures distances from and the contrast colour is derived from, is per
\* channel the rounded mean of exactly the pixels with alpha above 100, each
\* channel within 0..255, and it is white when no pixel has alpha above 100.
C19_TransparentBackground ==
    (Analysed /\ res.method = "Transparent Drill-Down") =>
        /\ \A k \in 1..3 : res.bg[k] \in 0..255
        /\ IF Len(Visible) = 0
           THEN res.bg = <<255, 255, 255>>
           ELSE /\ IsRoundedMean(res.bg[1], Total([i \in 1..Len(Visible) |-> Visible[i].r]), Len(Visible))
                /\ IsRoundedMean(res.bg[2], Total([i \in 1..Len(Visible) |-> Visible[i].g]), Len(Visible))
                /\ IsRoundedMean(res.bg[3], Total([i \in 1..Len(Visible) |-> Visible[i].b]), Len(Visible))
        /\ \A i \in 1..Len(data.px) :
              i \in ForegroundCells <=>
                 /\ data.px[i].a >= MaskAlpha
                 /\ DistSq(data.px[i], res.bg) > LogoDistance * LogoDistance
        /\ res.contrastColor \in { Hex(res.bg), Hex(<<51, 51, 51>>) }

C19_Witness ==
    /\ apc = "analysed"
    /\ res.method = "Transparent Drill-Down"
    /\ Len(data.px) = 4
    /\ Len(Visible) = 2
    /\ \E i \in 1..Len(data.px) : data.px[i].a = 60
    /\ res.bg = <<128, 128, 128>>
    /\ res.contrastColor = Hex(res.bg)

\* the masking cut-off of alpha said of each revision
CutoffOf(r) == IF r \in {"staging", "earlier"} THEN 100 ELSE 128

\* C20: in every revision's mask construction a pixel whose alpha is below
\* the revision's masking cut-off (100 in extractAndTrim, 128 in
\* createTraceMask and convertToHighFidelity) is written white in every mask,
\* whatever its colour, the background model or the palette colour, and it
\* is not among the pixels the fill colour is computed from.
C20_TransparentIsPaper ==
    apc = "masked" =>
        \A i \in 1..Len(data.px) :
            data.px[i].a < CutoffOf(rev) =>
                /\ \A k \in 1..Len(res.masks) : res.masks[k][i] = 255
                /\ i \notin res.counted

C20_Witness ==
    /\ apc = "masked"
    /\ rev = "hifi"
    /\ Len(res.masks) = 2
    /\ \E i, j \in 1..Len(data.px) :
          /\ data.px[i] = Pixel(0, 0, 255, 127)
          /\ data.px[j] = Pixel(0, 0, 255, 128)
          /\ res.masks[1][i] = 255 /\ res.masks[2][i] = 255
          /\ res.masks[1][j] = 0
          /\ j \in res.counted /\ i \notin res.counted

RECURSIVE ChannelSum(_, _)
ChannelSum(S, ch) ==
    IF S = {} THEN 0
    ELSE LET i == CHOOSE x \in S : TRUE
          IN  data.px[i][ch] + ChannelSum(S \ {i}, ch)

\* the characters of a lower-case hexadecimal number
LowerHex == { HexDigits[k] : k \in 1..16 }

\* C22: when at least one pixel is Foreground, the fill colour is per channel
\* the rounded arithmetic mean of the RGB values of exactly the Foreground
\* pixels, written as a lower-case string of 7 characters, '#rrggbb', with
\* each channel in 0..255.
C22_FillIsForegroundMean ==
    (Analysed /\ ForegroundCells # {}) =>
        /\ Len(res.fillColor) = 7
        /\ res.fillColor[1] = "#"
        /\ \A k \in 2..7 : res.fillColor[k] \in LowerHex
        /\ \A k \in 1..3 : ParseColour(res.fillColor)[k] \in 0..255
        /\ IsRoundedMean(ParseColour(res.fillColor)[1], ChannelSum(ForegroundCells, "r"),
                         Cardinality(ForegroundCells))
        /\ IsRoundedMean(ParseColour(res.fillColor)[2], ChannelSum(ForegroundCells, "g"),
                         Cardinality(ForegroundCells))
        /\ IsRoundedMean(ParseColour(res.fillColor)[3], ChannelSum(ForegroundCells, "b"),
                         Cardinality(ForegroundCells))

C22_Witness ==
    /\ apc = "analysed"
    /\ Len(data.px) = 4
    /\ Cardinality(ForegroundCells) = 2
    /\ \E i \in 1..Len(data.px) : i \notin ForegroundCells /\ data.px[i].a = 255
    /\ res.fillColor = <<"#", "8", "0", "0", "0", "0", "0">>

\* the luma of the fill and the luma of the background both exceed 150
BothLight ==
    /\ Luma(ParseColour(res.fillColor)) > LightLuma * 10000
    /\ Luma(res.bg) > LightLuma * 10000

\* C23: unless the luma of the fill and the luma of the background both
\* exceed the light threshold, the contrast colour returned is exactly the
\* hex encoding of the background colour; the dark override #333333 is
\* applied only when both lumas are above the threshold.
C23_ContrastKept ==
    Analysed =>
        /\ ~BothLight =>
              /\ res.contrastColor = Hex(res.bg)
              /\ Len(res.contrastColor) = 7
              /\ ParseColour(res.contrastColor) = res.bg
        /\ res.contrastColor # Hex(res.bg) =>
              /\ BothLight
              /\ res.contrastColor = <<"#", "3", "3", "3", "3", "3", "3">>

C23_Witness ==
    /\ apc = "analysed"
    /\ res.method = "Box Drill-Down"
    /\ res.fgCount > 0
    /\ Luma(ParseColour(res.fillColor)) <= LightLuma * 10000
    /\ Luma(res.bg) > LightLuma * 10000
    /\ res.contrastColor = <<"#", "f", "f", "f", "f", "f", "f">>

\* the lightness above which the revision leaves a pixel out of the histogram
LightnessOf(r) == IF r = "part000" THEN 240 ELSE 220

\* the positions of data that pass the alpha and the lightness filter
Passing ==
    { i \in 1..Len(data.px) :
        /\ data.px[i].a >= 128
        /\ \/ data.px[i].r <= LightnessOf(rev)
           \/ data.px[i].g <= LightnessOf(rev)
           \/ data.px[i].b <= LightnessOf(rev) }

\* how many passing pixels have the colour written c
PixelCount(c) == Cardinality({ i \in Passing : Hex(ColourAt(data, i)) = c })

\* C27: in the histogram revisions the palette has between 1 and 3 entries,
\* holds no colour twice, is ordered by non-increasing pixel count, the most
\* frequent first, and is exactly ['#000000'] when no pixel passes the alpha
\* and lightness filters.
C27_PaletteShape ==
    apc = "counted" =>
        /\ Len(res.sortedColors) \in 1..3
        /\ \A j, k \in 1..Len(res.sortedColors) :
              j # k => res.sortedColors[j] # res.sortedColors[k]
        /\ \A k \in 1..(Len(res.sortedColors) - 1) :
              PixelCount(res.sortedColors[k]) >= PixelCount(res.sortedColors[k + 1])
        /\ Passing = {} => res.sortedColors = << Black >>
        /\ Passing # {} =>
              /\ \A k \in 1..Len(res.sortedColors) : PixelCount(res.sortedColors[k]) > 0
              /\ \A i \in Passing :
                    PixelCount(Hex(ColourAt(data, i)))
                       <= PixelCount(res.sortedColors[Len(res.sortedColors)])
                    \/ \E k \in 1..Len(res.sortedColors) :
                          res.sortedColors[k] = Hex(ColourAt(data, i))

C27_Witness ==
    /\ apc = "counted"
    /\ Len(data.px) = 4
    /\ Cardinality({ Hex(ColourAt(data, i)) : i \in Passing }) = 3
    /\ Cardinality(Passing) = 4
    /\ Len(res.sortedColors) = 3
    /\ PixelCount(res.sortedColors[1]) = 2
    /\ res.sortedColors[1] = Hex(ColourAt(data, 3))

(***************************************************************************)
(* Properties of the placement                                             *)
(***************************************************************************)
\* C5: a resized box no wider and no higher than the canvas is placed inside
\* the canvas: left >= 0, top >= 0, left + width <= 240, top + height <= 240.
C5_PlacementInsideCanvas ==
    (/\ ppc = "placed"
     /\ box.width <= PROCESS_CANVAS
     /\ box.height <= PROCESS_CANVAS) =>
        /\ place.left >= 0
        /\ place.top >= 0
        /\ place.left + box.width <= PROCESS_CANVAS
        /\ place.top + box.height <= PROCESS_CANVAS

C5_Witness ==
    /\ ppc = "placed"
    /\ box = [width |-> PROCESS_CANVAS - 1, height |-> PROCESS_CANVAS]
    /\ place = [top |-> 0, left |-> 1]

\* v is anchor - size / 2 rounded to the nearest integer, a half rounding up
IsRoundedOffset(v, anchor, size) ==
    2 * anchor - size - 1 < 2 * v /\ 2 * v <= 2 * anchor - size + 1

\* the offset o on an axis is max(0, round(anchor - size / 2)), and the box is
\* centred on the anchor to within one pixel unless the offset was clamped
OffsetOnAxis(o, anchor, size) ==
    \E v \in (0 - PROCESS_CANVAS)..PROCESS_CANVAS :
        /\ IsRoundedOffset(v, anchor, size)
        /\ IF v >= 0
           THEN /\ o = v
                /\ Abs(2 * o + size - 2 * anchor) <= 2
           ELSE o = 0

\* C24: on each axis the offset handed to the compositor is
\* max(0, round(anchor - size / 2)): when the unclamped value is not negative
\* the box is centred on the anchor (120, 90) to within one pixel, otherwise
\* the offset is exactly 0; the offset is never negative.
C24_CentredOrClamped ==
    ppc = "placed" =>
        /\ OffsetOnAxis(place.left, 120, box.width)
        /\ OffsetOnAxis(place.top, 90, box.height)
        /\ place.left >= 0 /\ place.top >= 0

C24_Witness ==
    /\ ppc = "placed"
    /\ box = [width |-> 101, height |-> 200]
    /\ place = [top |-> 0, left |-> 70]

(***************************************************************************)
(* Properties of the assembly                                              *)
(***************************************************************************)
\* the fraction f is the whole number n
IsWhole(f, n) == f.num = n * f.den

\* C26: in every revision the traced path is scaled back by the exact
\* inverse of the supersampling factor: the canvas side times the scale of
\* the group is 24, the extent of the viewBox, so that a point of the path on
\* the edge of the canvas lands on the edge of the viewBox.
C26_CanvasMapsToViewBox ==
    ppc = "assembled" =>
        /\ drawn.viewBox = 24
        /\ IsWhole(Scaled(rev, CanvasSide(rev)), 24)
        /\ point.x = CanvasSide(rev) => IsWhole(drawn.x, drawn.viewBox)
        /\ point.y = CanvasSide(rev) => IsWhole(drawn.y, drawn.viewBox)

====
